---------------------------- MODULE Spec2Model ----------------------------
(***************************************************************************)
(* Viera Protocol - AI validation service.                                 *)
(*                                                                         *)
(* The model follows ai-validation-service/app: the security scanner, the  *)
(* code validator, the confidence scorer and the two request handlers of   *)
(* main.py (POST /validate and POST /validate/code).                       *)
(*                                                                         *)
(* Representation.                                                         *)
(*  - A file name is a sequence of one-character strings, so that          *)
(*    os.path.splitext and str.lower are computed, not assumed.            *)
(*  - File content is described by what the code reads of it: its first    *)
(*    bytes, its size, which risk patterns occur in its text and how       *)
(*    often, and its line/comment counts.                                  *)
(*  - Every external tool (clamd, ast/node, flake8/eslint, bandit) is an   *)
(*    input of the file case: the answer it gives for that file.           *)
(*  - A per-file score is an integer 0..100.  An averaged score is kept in *)
(*    hundredths (round(x, 2) of the code), 0..10000.                      *)
(*  - Python floats are not modelled bit by bit.  The value handed to      *)
(*    round() is computed exactly as a fraction; round() yields the        *)
(*    nearest integer, and when the exact value lies half-way between two  *)
(*    integers both neighbours are possible outcomes, since the binary     *)
(*    representation error decides which side the float falls on.          *)
(***************************************************************************)
EXTENDS Integers, Sequences, FiniteSets, TLC

VARIABLES
    pc,                 \* position of the request handler
    handler,            \* which endpoint is running: "none", "validate", "validate_code"
    request,            \* the request being served
    file_idx,           \* index of the file of the for-loop of validate_submission
    processed_files,    \* main.py: processed_files
    overall_scores,     \* main.py: overall_scores (sums while the loop runs)
    all_issues,         \* main.py: all_issues
    security_result,    \* process_single_file: security_result
    validation_result,  \* process_single_file: validation_result
    pending_exc,        \* an exception travelling through a finally block
    temp_files,         \* temporary files that exist on disk
    calls,              \* how often each collaborator was used by the request
    response,           \* what the handler returned or raised
    fn_in,              \* input of a function called on its own (component specifications)
    fn_out              \* its result

vars == << pc, handler, request, file_idx, processed_files, overall_scores,
           all_issues, security_result, validation_result, pending_exc,
           temp_files, calls, response, fn_in, fn_out >>

None == [kind |-> "none"]

(***************************************************************************)
(* Bounds of the model.                                                    *)
(***************************************************************************)
MaxFiles == 2       \* files per submission
MaxOccur == 2       \* occurrences of a risk pattern in one text
MaxFindings == 7    \* findings of one kind a lint oracle reports for one file
MaxIssues == 2      \* issues in a list handed to get_recommendation on its own
MaxBandit == 3      \* findings of one severity bandit reports for one file

(***************************************************************************)
(* Generic helpers.                                                        *)
(***************************************************************************)
Max2(a, b) == IF a >= b THEN a ELSE b

Min2(a, b) == IF a <= b THEN a ELSE b

RECURSIVE SumSeq(_)
SumSeq(s) == IF s = << >> THEN 0 ELSE Head(s) + SumSeq(Tail(s))

RECURSIVE Flatten(_)
Flatten(ss) == IF ss = << >> THEN << >> ELSE Head(ss) \o Flatten(Tail(ss))

\* str.rfind(c) + 1: the last position of c in s, 0 when absent.
LastIndexOf(s, c) ==
    LET idx == { i \in 1..Len(s) : s[i] = c }
    IN  IF idx = {} THEN 0 ELSE CHOOSE i \in idx : \A j \in idx : j <= i

\* `sub in s` for strings held as character sequences.
Contains(sub, s) ==
    \E i \in 1..(Len(s) - Len(sub) + 1) : SubSeq(s, i, i + Len(sub) - 1) = sub

\* str.lower() on the alphabet the file names of the model use.
LowerChar(c) ==
    CASE c = "J" -> "j"
      [] c = "S" -> "s"
      [] c = "P" -> "p"
      [] c = "Y" -> "y"
      [] c = "E" -> "e"
      [] c = "X" -> "x"
      [] OTHER -> c

Lower(s) == [ i \in 1..Len(s) |-> LowerChar(s[i]) ]

\* os.path.splitext(p)[1]: from the last dot, when that dot comes after the
\* last separator and some character between them is not a dot.
SplitExt(p) ==
    LET sepIndex == LastIndexOf(p, "/")
        dotIndex == LastIndexOf(p, ".")
    IN  IF dotIndex > sepIndex
           /\ \E k \in (sepIndex + 1)..(dotIndex - 1) : p[k] # "."
        THEN SubSeq(p, dotIndex, Len(p))
        ELSE << >>

FileExtension(name) == Lower(SplitExt(name))

\* round() of a float that approximates num/den (num >= 0, den > 0): the
\* nearest integer; both neighbours at an exact tie.
RoundOutcomes(num, den) ==
    LET q == num \div den
        r == num % den
    IN  IF 2 * r < den THEN {q}
        ELSE IF 2 * r > den THEN {q + 1}
        ELSE {q, q + 1}

(***************************************************************************)
(* Issues.  message is the fixed text of the f-string, info the variable   *)
(* text put into it (a signature, a lint code), n a count put into it,     *)
(* line the "line" key (0: None or absent).                                *)
(***************************************************************************)
Issue(sev, msg, file, rule) ==
    [ severity |-> sev, message |-> msg, file |-> file, rule |-> rule,
      line |-> 0, n |-> 0, info |-> << >> ]

(***************************************************************************)
(* security_scanner.py                                                     *)
(***************************************************************************)
\* The number of matches re.findall(pattern, content, re.IGNORECASE) returns:
\* every pattern that occurs in the text occurs content.reps times.
FindAll(pattern, content) ==
    IF pattern \in content.feats THEN content.reps ELSE 0

\* A malware stage that reports a file infected when it could not scan it.
ScanWithClamav_FailClosed(av) ==
    IF (av.kind = "status" /\ ~av.found) \/ av.kind = "none"
    THEN [ infected |-> FALSE, virus |-> << >>, error |-> FALSE ]
    ELSE [ infected |-> TRUE, virus |-> << av.sig >>, error |-> av.kind # "status" ]

\* _scan_with_clamav: no socket, a None result, a status with or without
\* "FOUND", or a scan() that raises; every exception is swallowed.  The
\* status is the text the code takes it to be: on any other value (a pair,
\* say) str.replace raises, which is the answer "raises".
ScanWithClamav(av) ==
    CASE av.kind = "unavailable" ->
            [ infected |-> FALSE, virus |-> << >>, error |-> TRUE ]
      [] av.kind = "none" ->
            [ infected |-> FALSE, virus |-> << >>, error |-> FALSE ]
      [] av.kind = "status" /\ av.found ->
            [ infected |-> TRUE, virus |-> << av.sig >>, error |-> FALSE ]
      [] av.kind = "status" /\ ~av.found ->
            [ infected |-> FALSE, virus |-> << >>, error |-> FALSE ]
      [] OTHER ->
            [ infected |-> FALSE, virus |-> << >>, error |-> TRUE ]

dangerous_extensions ==
    { << ".", "e", "x", "e" >>,
      << ".", "b", "a", "t" >>,
      << ".", "c", "m", "d" >>,
      << ".", "s", "c", "r" >>,
      << ".", "p", "i", "f" >>,
      << ".", "c", "o", "m" >>,
      << ".", "d", "l", "l" >>,
      << ".", "m", "s", "i" >>,
      << ".", "v", "b", "s" >>,
      << ".", "p", "s", "1" >>,
      << ".", "j", "a", "r" >>,
      << ".", "a", "p", "p" >>,
      << ".", "d", "e", "b" >>,
      << ".", "r", "p", "m" >> }

text_extensions ==
    { << ".", "p", "y" >>,
      << ".", "j", "s" >>,
      << ".", "t", "s" >>,
      << ".", "j", "a", "v", "a" >>,
      << ".", "c", "p", "p" >>,
      << ".", "c" >>,
      << ".", "h" >>,
      << ".", "t", "x", "t" >>,
      << ".", "m", "d" >> }

code_extensions ==
    { << ".", "p", "y" >>,
      << ".", "j", "s" >>,
      << ".", "j", "a", "v", "a" >>,
      << ".", "c", "p", "p" >> }

\* _validate_file_type.  The issues list is shared with the except clause, so
\* a dangerous-extension issue survives a failing open().
ValidateFileType(fc) ==
    LET file_extension == FileExtension(fc.name)
        ext_issues ==
            IF file_extension \in dangerous_extensions
            THEN << Issue("error", "Dangerous file type not allowed",
                          fc.name, "file_type_validation") >>
            ELSE << >>
        file_signature == SubSeq(fc.content.head, 1, Min2(16, Len(fc.content.head)))
        is_mz == Len(file_signature) >= 2
                 /\ SubSeq(file_signature, 1, 2) = << "M", "Z" >>
        sig_issues ==
            IF is_mz
            THEN << Issue("error", "Executable file detected by signature",
                          fc.name, "file_signature_check") >>
            ELSE << >>
    IN  IF "file_type" \in fc.faults
        THEN [ suspicious |-> TRUE,
               issues |-> ext_issues \o
                          << Issue("warning", "File type validation failed",
                                   fc.name, "file_type_error") >> ]
        ELSE [ suspicious |-> (file_extension \in dangerous_extensions) \/ is_mz,
               issues |-> ext_issues \o sig_issues ]

\* The table of _scan_file_content, in its order.
suspicious_patterns ==
    << [ pattern |-> "eval", message |-> "Use of eval() function detected", severity |-> "warning" ],
       [ pattern |-> "exec", message |-> "Use of exec() function detected", severity |-> "warning" ],
       [ pattern |-> "__import__", message |-> "Dynamic import detected", severity |-> "info" ],
       [ pattern |-> "system_command", message |-> "System command execution detected", severity |-> "warning" ],
       [ pattern |-> "network", message |-> "Network operation detected", severity |-> "info" ],
       [ pattern |-> "base64", message |-> "Base64 decoding detected", severity |-> "info" ],
       [ pattern |-> "deserialization", message |-> "Unsafe deserialization detected", severity |-> "error" ] >>

ContentSeverityDeduction(severity) ==
    CASE severity = "error" -> 30
      [] severity = "warning" -> 10
      [] severity = "info" -> 2
      [] OTHER -> 0

\* The for-loop of _scan_file_content over patterns[k..], from (issues, deduction).
RECURSIVE ContentPatternLoop(_, _, _, _)
ContentPatternLoop(k, fc, issues, score_deduction) ==
    IF k > Len(suspicious_patterns)
    THEN [ issues |-> issues, score_deduction |-> score_deduction ]
    ELSE LET p == suspicious_patterns[k]
             matches == FindAll(p.pattern, fc.content)
         IN  IF matches > 0
             THEN ContentPatternLoop(k + 1, fc,
                      Append(issues,
                             [ Issue(p.severity, p.message, fc.name,
                                     "content_pattern_scan") EXCEPT !.n = matches ]),
                      score_deduction + ContentSeverityDeduction(p.severity))
             ELSE ContentPatternLoop(k + 1, fc, issues, score_deduction)

\* A content stage without its cap.
ContentCap_Uncapped(score_deduction) == score_deduction

\* min(score_deduction, 50)
ContentCap(score_deduction) == Min2(score_deduction, 50)

\* _scan_file_content
ScanFileContent(fc) ==
    IF FileExtension(fc.name) \notin text_extensions
    THEN [ issues |-> << >>, score_deduction |-> 0 ]
    ELSE IF "content" \in fc.faults
    THEN [ issues |-> << Issue("warning", "Content scan failed", fc.name,
                               "content_scan_error") >>,
           score_deduction |-> 5 ]
    ELSE LET r == ContentPatternLoop(1, fc, << >>, 0)
         IN  [ issues |-> r.issues,
               score_deduction |-> ContentCap(r.score_deduction) ]

\* A structure stage that swallows its failure without a trace.
ValidateFileStructure_Silent(fc) ==
    IF "structure" \in fc.faults
    THEN [ issues |-> << >>, score_deduction |-> 0 ]
    ELSE LET file_size == fc.content.size
             large == file_size > 100 * 1024 * 1024
             small == FileExtension(fc.name) \in code_extensions /\ file_size < 10
         IN  [ issues |->
                   (IF large
                    THEN << Issue("warning", "Large file size", fc.name, "file_size_check") >>
                    ELSE << >>)
                   \o
                   (IF small
                    THEN << Issue("info", "Very small code file detected", fc.name,
                                  "file_size_check") >>
                    ELSE << >>),
               score_deduction |-> (IF large THEN 5 ELSE 0) + (IF small THEN 2 ELSE 0) ]

\* _validate_file_structure
ValidateFileStructure(fc) ==
    IF "structure" \in fc.faults
    THEN [ issues |-> << Issue("info", "File structure validation failed",
                               fc.name, "structure_validation_error") >>,
           score_deduction |-> 1 ]
    ELSE LET file_size == fc.content.size
             large == file_size > 100 * 1024 * 1024
             small == FileExtension(fc.name) \in code_extensions /\ file_size < 10
         IN  [ issues |->
                   (IF large
                    THEN << Issue("warning", "Large file size", fc.name, "file_size_check") >>
                    ELSE << >>)
                   \o
                   (IF small
                    THEN << Issue("info", "Very small code file detected", fc.name,
                                  "file_size_check") >>
                    ELSE << >>),
               score_deduction |-> (IF large THEN 5 ELSE 0) + (IF small THEN 2 ELSE 0) ]

\* A malware stage that deducts from the score instead of setting it.
MalwareScore_Deducting(infected) == IF infected THEN 50 ELSE 100

\* The score scan_file holds after the malware stage.
MalwareScore(infected) == IF infected THEN 0 ELSE 100

\* "Ensure score doesn't go below 0"
ClampScore(score) == Max2(0, score)

\* scan_file.  Each stage catches its own exceptions, so the except clause of
\* scan_file itself (score 0, one scan_error issue) is entered by no stage
\* outcome.
ScanFile(fc) ==
    LET virus_result == ScanWithClamav(fc.av)
        malware_issues ==
            IF virus_result.infected
            THEN << [ Issue("error", "Malware detected", fc.name, "clamav_scan")
                      EXCEPT !.info = virus_result.virus ] >>
            ELSE << >>
        file_type_result == ValidateFileType(fc)
        content_result == ScanFileContent(fc)
        structure_result == ValidateFileStructure(fc)
        security_score ==
            MalwareScore(virus_result.infected)
            - (IF file_type_result.suspicious THEN 20 ELSE 0)
            - content_result.score_deduction
            - structure_result.score_deduction
    IN  [ score |-> ClampScore(security_score),
          issues |-> malware_issues
                     \o (IF file_type_result.suspicious
                         THEN file_type_result.issues ELSE << >>)
                     \o content_result.issues
                     \o structure_result.issues,
          scan_completed |-> TRUE ]


(***************************************************************************)
(* code_validator.py                                                       *)
(***************************************************************************)
\* supported_languages[...]['extensions']
LanguageExtensions(language) ==
    CASE language = "python" -> { << ".", "p", "y" >> }
      [] language = "javascript" -> { << ".", "j", "s" >>, << ".", "j", "s", "x" >> }
      [] OTHER -> {}

\* _detect_language; "" stands for None.
DetectLanguage(file_extension) ==
    IF file_extension \in LanguageExtensions("python") THEN "python"
    ELSE IF file_extension \in LanguageExtensions("javascript") THEN "javascript"
    ELSE ""

\* _check_python_syntax: ast.parse succeeds, raises SyntaxError, or anything
\* else goes wrong (an undecodable file, for one).
CheckPythonSyntax(syntax) ==
    CASE syntax.kind = "valid" -> [ valid |-> TRUE, error |-> "", line |-> 0 ]
      [] syntax.kind = "syntax_error" ->
            [ valid |-> FALSE, error |-> "SyntaxError", line |-> syntax.line ]
      [] OTHER -> [ valid |-> FALSE, error |-> "Parsing error", line |-> 0 ]

\* _check_javascript_syntax: node --check returns 0 or not, times out, is not
\* installed, or anything else goes wrong.
CheckJavascriptSyntax(syntax) ==
    CASE syntax.kind = "valid" -> [ valid |-> TRUE, error |-> "", line |-> 0 ]
      [] syntax.kind = "invalid" -> [ valid |-> FALSE, error |-> "stderr", line |-> 0 ]
      [] syntax.kind = "timeout" ->
            [ valid |-> FALSE, error |-> "Syntax check timed out", line |-> 0 ]
      [] syntax.kind = "unavailable" ->
            [ valid |-> FALSE, error |-> "Node.js not available for syntax checking",
              line |-> 0 ]
      [] OTHER -> [ valid |-> FALSE, error |-> "Syntax check error", line |-> 0 ]

SyntaxChecker(language, syntax) ==
    IF language = "python" THEN CheckPythonSyntax(syntax)
    ELSE CheckJavascriptSyntax(syntax)

\* _validate_syntax.  Its except clause needs the checker itself to raise,
\* which the two checkers above never do: the fault "syntax" stands for it.
ValidateSyntax(fc, language) ==
    IF "syntax" \in fc.faults
    THEN [ issues |-> << Issue("warning", "Syntax validation failed", fc.name,
                               "syntax_validation_error") >>,
           score_deduction |-> 10 ]
    ELSE LET syntax_result == SyntaxChecker(language, fc.syntax)
         IN  IF ~syntax_result.valid
             THEN [ issues |-> << [ Issue("error", "Syntax error", fc.name,
                                          "syntax_validation")
                                    EXCEPT !.line = syntax_result.line,
                                           !.info = << syntax_result.error >> ] >>,
                    score_deduction |-> 50 ]
             ELSE [ issues |-> << >>, score_deduction |-> 0 ]

\* any(error_code in code for error_code in ['E9', 'F'])
IsErrorCode(code) == Contains(<< "E", "9" >>, code) \/ Contains(<< "F" >>, code)

\* The severity _analyze_code_quality gives one finding.
QualitySeverity(language, finding) ==
    IF language = "python"
    THEN (IF IsErrorCode(finding.code) THEN "error" ELSE "warning")
    ELSE (CASE finding.severity = 1 -> "warning"
            [] finding.severity = 2 -> "error"
            [] OTHER -> "info")

QualityDeduction(severity) == IF severity = "error" THEN 5 ELSE 2

\* The loop over the findings of flake8 / the messages of eslint.
RECURSIVE QualityLoop(_, _, _, _, _)
QualityLoop(k, fc, language, issues, score_deduction) ==
    IF k > Len(fc.lint.items)
    THEN [ issues |-> issues, score_deduction |-> score_deduction ]
    ELSE LET f == fc.lint.items[k]
             severity == QualitySeverity(language, f)
             issue ==
                 IF language = "python"
                 THEN [ Issue(severity, "flake8 finding", fc.name, "flake8")
                        EXCEPT !.line = f.line, !.info = f.code ]
                 ELSE [ Issue(severity, "eslint message", fc.name, f.ruleId)
                        EXCEPT !.line = f.line ]
         IN  QualityLoop(k + 1, fc, language, Append(issues, issue),
                         score_deduction + QualityDeduction(severity))

QualityCap(score_deduction) == Min2(score_deduction, 30)

\* _analyze_code_quality
AnalyzeCodeQuality(fc, language) ==
    CASE fc.lint.kind = "timeout" ->
            [ issues |-> << Issue("warning", "Code quality analysis timed out",
                                  fc.name, "quality_timeout") >>,
              score_deduction |-> 5 ]
      [] fc.lint.kind = "raises" ->
            [ issues |-> << Issue("info", "Code quality analysis failed",
                                  fc.name, "quality_analysis_error") >>,
              score_deduction |-> 0 ]
      [] OTHER ->
            LET r == QualityLoop(1, fc, language, << >>, 0)
            IN  [ issues |-> r.issues,
                  score_deduction |-> QualityCap(r.score_deduction) ]

\* severity_map of the bandit branch, default "info".
BanditSeverity(issue_severity) ==
    CASE issue_severity = "LOW" -> "info"
      [] issue_severity = "MEDIUM" -> "warning"
      [] issue_severity = "HIGH" -> "error"
      [] OTHER -> "info"

BanditDeduction(severity) ==
    IF severity = "error" THEN 15
    ELSE IF severity = "warning" THEN 8
    ELSE 3

RECURSIVE BanditLoop(_, _, _, _)
BanditLoop(k, fc, issues, score_deduction) ==
    IF k > Len(fc.seclint.items)
    THEN [ issues |-> issues, score_deduction |-> score_deduction ]
    ELSE LET f == fc.seclint.items[k]
             severity == BanditSeverity(f.issue_severity)
         IN  BanditLoop(k + 1, fc,
                 Append(issues,
                        [ Issue(severity, "bandit finding", fc.name, "bandit")
                          EXCEPT !.line = f.line_number, !.info = << f.test_id >> ]),
                 score_deduction + BanditDeduction(severity))

\* security_patterns of the javascript branch, in its order.
security_patterns ==
    << [ pattern |-> "eval", message |-> "Use of eval() detected", sev |-> "error" ],
       [ pattern |-> "innerHTML", message |-> "Potential XSS with innerHTML", sev |-> "warning" ],
       [ pattern |-> "document.write", message |-> "Use of document.write detected", sev |-> "warning" ],
       [ pattern |-> "setTimeout_string", message |-> "setTimeout with string argument", sev |-> "warning" ],
       [ pattern |-> "setInterval_string", message |-> "setInterval with string argument", sev |-> "warning" ] >>

JsPatternDeduction(sev) ==
    IF sev = "error" THEN 15
    ELSE IF sev = "warning" THEN 8
    ELSE 0

\* One issue for every match of a triggered pattern.
JsPatternIssues_PerMatch(p, matches, fc) ==
    [ i \in 1..matches |-> Issue(p.sev, p.message, fc.name, "js_security_pattern") ]

\* The issues one triggered pattern adds: one, whatever the number of matches.
JsPatternIssues(p, matches, fc) ==
    << [ Issue(p.sev, p.message, fc.name, "js_security_pattern") EXCEPT !.n = matches ] >>

RECURSIVE JsPatternLoop(_, _, _, _)
JsPatternLoop(k, fc, issues, score_deduction) ==
    IF k > Len(security_patterns)
    THEN [ issues |-> issues, score_deduction |-> score_deduction ]
    ELSE LET p == security_patterns[k]
             matches == FindAll(p.pattern, fc.content)
         IN  IF matches > 0
             THEN JsPatternLoop(k + 1, fc, issues \o JsPatternIssues(p, matches, fc),
                                score_deduction + JsPatternDeduction(p.sev))
             ELSE JsPatternLoop(k + 1, fc, issues, score_deduction)

SecurityCap(score_deduction) == Min2(score_deduction, 40)

\* _analyze_code_security
AnalyzeCodeSecurity(fc, language) ==
    IF language = "python"
    THEN CASE fc.seclint.kind = "timeout" ->
                 [ issues |-> << Issue("warning", "Security analysis timed out",
                                       fc.name, "security_timeout") >>,
                   score_deduction |-> 5 ]
           [] fc.seclint.kind = "raises" ->
                 [ issues |-> << Issue("info", "Security analysis failed",
                                       fc.name, "security_analysis_error") >>,
                   score_deduction |-> 0 ]
           [] OTHER ->
                 LET r == BanditLoop(1, fc, << >>, 0)
                 IN  [ issues |-> r.issues,
                       score_deduction |-> SecurityCap(r.score_deduction) ]
    ELSE IF "code_security" \in fc.faults
    THEN [ issues |-> << Issue("info", "Security analysis failed",
                               fc.name, "security_analysis_error") >>,
           score_deduction |-> 0 ]
    ELSE LET r == JsPatternLoop(1, fc, << >>, 0)
         IN  [ issues |-> r.issues,
               score_deduction |-> SecurityCap(r.score_deduction) ]

\* _analyze_complexity.  doc_ratio < 0.1 is (docs + comments) / non_empty < 1/10.
AnalyzeComplexity(fc, language) ==
    IF "complexity" \in fc.faults
    THEN [ issues |-> << Issue("info", "Complexity analysis failed",
                               fc.name, "complexity_analysis_error") >>,
           score_deduction |-> 0 ]
    ELSE LET c == fc.content
             large == c.line_count > 500
             undocumented ==
                 c.non_empty_lines > 20
                 /\ 10 * (c.docstring_count + c.comment_count) < c.non_empty_lines
         IN  [ issues |->
                   (IF large
                    THEN << [ Issue("info", "Large file", fc.name, "file_size_complexity")
                              EXCEPT !.n = c.line_count ] >>
                    ELSE << >>)
                   \o
                   (IF undocumented
                    THEN << Issue("info", "Consider adding more comments and documentation",
                                  fc.name, "documentation_ratio") >>
                    ELSE << >>),
               score_deduction |-> (IF large THEN 3 ELSE 0)
                                   + (IF undocumented THEN 2 ELSE 0) ]

\* A short-circuit that scores an unsupported file 0.
UnsupportedResult_Zero(fc) ==
    [ score |-> 0,
      issues |-> << Issue("info", "Unsupported file type for code validation",
                          fc.name, "language_detection") >>,
      language |-> "" ]

\* The result for a file whose extension names no supported language
\* (language "": the result has no language key).
UnsupportedResult(fc) ==
    [ score |-> 50,
      issues |-> << Issue("info", "Unsupported file type for code validation",
                          fc.name, "language_detection") >>,
      language |-> "" ]

\* A technical score left as the subtraction gives it.
ClampTechnical_Missing(score) == score

\* "Ensure score doesn't go below 0"
ClampTechnical(score) == Max2(0, score)

\* validate_code_file.  As in scan_file, each stage catches its own
\* exceptions and the except clause of validate_code_file is entered by none.
ValidateCodeFile(fc) ==
    LET language == DetectLanguage(FileExtension(fc.name))
        syntax_result == ValidateSyntax(fc, language)
        quality_result == AnalyzeCodeQuality(fc, language)
        code_security_result == AnalyzeCodeSecurity(fc, language)
        complexity_result == AnalyzeComplexity(fc, language)
        technical_score ==
            100 - syntax_result.score_deduction
                - quality_result.score_deduction
                - code_security_result.score_deduction
                - complexity_result.score_deduction
    IN  IF language = ""
        THEN UnsupportedResult(fc)
        ELSE [ score |-> ClampTechnical(technical_score),
               issues |-> syntax_result.issues \o quality_result.issues
                          \o code_security_result.issues \o complexity_result.issues,
               language |-> language ]


(***************************************************************************)
(* confidence_scorer.py.  A score map is a function from category names to *)
(* scores in hundredths; a fraction is a record [n, d].                    *)
(***************************************************************************)
\* self.weights, in percent, in the order the dictionary lists them.
WeightedCategories == << "security", "technical_quality", "originality", "completeness" >>

Weight(category) ==
    CASE category = "security" -> 35
      [] category = "technical_quality" -> 30
      [] category = "originality" -> 20
      [] category = "completeness" -> 15
      [] OTHER -> 0

\* scores.get(category, 100)
ScoreOr100(scores, category) ==
    IF category \in DOMAIN scores THEN scores[category] ELSE 100 * 100

\* weighted_score (in 1/10000) and total_weight (in percent) after the loop
\* over scores.items().
WeightedScore(scores) ==
    SumSeq([ k \in 1..Len(WeightedCategories) |->
               IF WeightedCategories[k] \in DOMAIN scores
               THEN scores[WeightedCategories[k]] * Weight(WeightedCategories[k])
               ELSE 0 ])

TotalWeight(scores) ==
    SumSeq([ k \in 1..Len(WeightedCategories) |->
               IF WeightedCategories[k] \in DOMAIN scores
               THEN Weight(WeightedCategories[k])
               ELSE 0 ])

\* A weighted sum divided by the sum of all four weights, present or not.
BaseScore_AllWeights(scores) ==
    IF TotalWeight(scores) > 0
    THEN [ n |-> WeightedScore(scores), d |-> 100 * 100 ]
    ELSE [ n |-> 50, d |-> 1 ]

\* final_score: the weighted mean over the categories present, 50 without any.
BaseScore(scores) ==
    IF TotalWeight(scores) > 0
    THEN [ n |-> WeightedScore(scores), d |-> 100 * TotalWeight(scores) ]
    ELSE [ n |-> 50, d |-> 1 ]

Times(x, num, den) == [ n |-> x.n * num, d |-> x.d * den ]

\* A security penalty with its two factors exchanged.
SecurityPenalty_Exchanged(scores, x) ==
    IF ScoreOr100(scores, "security") < 50 * 100 THEN Times(x, 7, 10)
    ELSE IF ScoreOr100(scores, "security") < 70 * 100 THEN Times(x, 3, 10)
    ELSE x

\* The security penalty: * 0.3 below 50, * 0.7 below 70.
SecurityPenalty(scores, x) ==
    IF ScoreOr100(scores, "security") < 50 * 100 THEN Times(x, 3, 10)
    ELSE IF ScoreOr100(scores, "security") < 70 * 100 THEN Times(x, 7, 10)
    ELSE x

\* The technical-quality penalty: * 0.5 below 30.
TechnicalPenalty(scores, x) ==
    IF ScoreOr100(scores, "technical_quality") < 30 * 100 THEN Times(x, 1, 2) ELSE x

\* all(score >= 85 for score in scores.values()): every value of the map,
\* recognised category or not; true of the empty map.
AllHigh(scores) == \A c \in DOMAIN scores : scores[c] >= 85 * 100

\* A bonus granted as soon as one score is at least 85.
Bonus_AnyHigh(scores, x) ==
    IF \E c \in DOMAIN scores : scores[c] >= 85 * 100
    THEN LET y == Times(x, 21, 20)
         IN  IF y.n \div y.d >= 100 THEN [ n |-> 100, d |-> 1 ] ELSE y
    ELSE x

\* min(100, adjusted_score * 1.05) when every score is at least 85.
Bonus(scores, x) ==
    IF AllHigh(scores)
    THEN LET y == Times(x, 21, 20)
         IN  IF y.n \div y.d >= 100 THEN [ n |-> 100, d |-> 1 ] ELSE y
    ELSE x

\* Adjustments that apply only the larger of the two penalties.
ApplyConfidenceAdjustments_LargerOnly(scores, base_score) ==
    Bonus(scores,
          IF ScoreOr100(scores, "security") < 70 * 100
          THEN SecurityPenalty(scores, base_score)
          ELSE TechnicalPenalty(scores, base_score))

\* _apply_confidence_adjustments
ApplyConfidenceAdjustments(scores, base_score) ==
    Bonus(scores, TechnicalPenalty(scores, SecurityPenalty(scores, base_score)))

\* max(0, min(100, round(adjusted_score)))
ClampConfidence(rounded) == Max2(0, Min2(100, rounded))

\* calculate_overall_confidence: the integers it can return for a score map.
\* The except clause (return 50) needs a non-numeric score and is not entered.
CalculateOverallConfidence(scores) ==
    LET adjusted_score == ApplyConfidenceAdjustments(scores, BaseScore(scores))
    IN  { ClampConfidence(r) : r \in RoundOutcomes(adjusted_score.n, adjusted_score.d) }

(***************************************************************************)
(* main.py: get_recommendation                                             *)
(***************************************************************************)
CriticalIssues(issues) == SelectSeq(issues, LAMBDA issue : issue.severity = "error")

\* A decision that looks at the confidence before the issues.
GetRecommendation_ConfidenceFirst(confidence, issues) ==
    IF confidence >= 85 THEN "approve"
    ELSE IF CriticalIssues(issues) # << >> THEN "reject"
    ELSE IF confidence >= 70 THEN "human_review"
    ELSE "reject"

\* A decision that approves only above 85.
GetRecommendation_StrictApprove(confidence, issues) ==
    IF CriticalIssues(issues) # << >> THEN "reject"
    ELSE IF confidence > 85 THEN "approve"
    ELSE IF confidence >= 70 THEN "human_review"
    ELSE "reject"

GetRecommendation(confidence, issues) ==
    IF CriticalIssues(issues) # << >> THEN "reject"
    ELSE IF confidence >= 85 THEN "approve"
    ELSE IF confidence >= 70 THEN "human_review"
    ELSE "reject"


(***************************************************************************)
(* main.py: POST /validate                                                 *)
(***************************************************************************)
Categories == { "security", "technical_quality", "originality", "completeness" }

\* The researcher types validate_submission accepts.
RecognizedTypes == { "coder", "researcher", "data_scientist" }

\* An input check that looks at the file list only.
InputError_FilesOnly(researcher_type, files) ==
    IF files = << >> THEN "No files provided" ELSE ""

\* The two input checks of validate_submission: "" when the request passes,
\* else the detail of the HTTPException(400) it raises.
InputError(researcher_type, files) ==
    IF researcher_type \notin RecognizedTypes THEN "Invalid researcher type"
    ELSE IF files = << >> THEN "No files provided"
    ELSE ""

\* Both handlers wrap their body in try / except Exception and HTTPException
\* is an Exception: whatever is raised inside leaves as status 500.
Failure(detail) == [ kind |-> "http_error", status_code |-> 500, detail |-> detail ]

\* tempfile.NamedTemporaryFile(suffix="_" + filename) cannot create its file
\* when the suffix holds a path separator.
TempFileCreatable(name) == \A k \in 1..Len(name) : name[k] # "/"

\* A code validation run for every researcher type.
CodeValidationFor_Everyone(fc, researcher_type) == ValidateCodeFile(fc)

\* validation_result of process_single_file: code validation for coders only.
CodeValidationFor(fc, researcher_type) ==
    IF researcher_type = "coder"
    THEN ValidateCodeFile(fc)
    ELSE [ score |-> 0, issues |-> << >> ]

\* Scores whose completeness placeholder reaches the bonus threshold.
FileScores_Complete(security, validation) ==
    [ security |-> security.score,
      technical_quality |-> validation.score,
      originality |-> 85,
      completeness |-> 85 ]

\* scores of process_single_file
FileScores(security, validation) ==
    [ security |-> security.score,
      technical_quality |-> validation.score,
      originality |-> 85,
      completeness |-> 80 ]

\* "Combine issues"
CombineIssues(security, validation) == security.issues \o validation.issues

\* What process_single_file returns.
FileResult(fc, security, validation) ==
    [ file_info |-> [ name |-> fc.name, size |-> fc.content.size ],
      scores |-> FileScores(security, validation),
      issues |-> CombineIssues(security, validation) ]

\* process_single_file as a function of the file and the researcher type,
\* when the upload is read and written without error.
ProcessSingleFile(fc, researcher_type) ==
    FileResult(fc, ScanFile(fc), CodeValidationFor(fc, researcher_type))

ZeroScores == [ c \in Categories |-> 0 ]

\* An accumulation that assigns where it should add.
AddScores_Overwrite(overall, scores) == [ c \in Categories |-> scores[c] ]

\* overall_scores[key] += file_result["scores"][key]
AddScores(overall, scores) == [ c \in Categories |-> overall[c] + scores[c] ]

\* An extension that skips the issues the list already holds.
ExtendIssues_Dedup(issues, more) ==
    issues \o SelectSeq(more, LAMBDA x : \A k \in 1..Len(issues) : issues[k] # x)

\* all_issues.extend(file_result["issues"])
ExtendIssues(issues, more) == issues \o more

\* round(overall_scores[key] / num_files, 2) for every key, in hundredths:
\* the maps the averaging can produce.
AverageScores(sums, num_files) ==
    { [ security |-> a, technical_quality |-> b, originality |-> c, completeness |-> d ] :
        a \in RoundOutcomes(100 * sums["security"], num_files),
        b \in RoundOutcomes(100 * sums["technical_quality"], num_files),
        c \in RoundOutcomes(100 * sums["originality"], num_files),
        d \in RoundOutcomes(100 * sums["completeness"], num_files) }

\* security_passed
SecurityPassed(detailed_scores) == detailed_scores["security"] >= 70 * 100

\* The ValidationResponse for averaged scores and a confidence.
ValidationResponse(detailed_scores, overall_confidence, issues, num_files) ==
    [ kind |-> "response",
      overall_confidence |-> overall_confidence,
      security_passed |-> SecurityPassed(detailed_scores),
      detailed_scores |-> detailed_scores,
      issues_found |-> issues,
      recommendation |-> GetRecommendation(overall_confidence, issues),
      files_processed |-> num_files ]

NoCalls == [ read |-> 0, temp |-> 0, scan |-> 0, validate |-> 0 ]

Called(what) == [ calls EXCEPT ![what] = @ + 1 ]

CurrentFile == request.files[file_idx]

TempFileOf(idx) == [ handler |-> handler, idx |-> idx ]


(***************************************************************************)
(* The files and oracle answers the requests of the model are made of.     *)
(***************************************************************************)
NamePy == << "m", ".", "p", "y" >>
NameJs == << "a", ".", "J", "S" >>
NameJava == << "A", ".", "j", "a", "v", "a" >>
NameExe == << "x", ".", "e", "x", "e" >>
NameMd == << "r", ".", "m", "d" >>
NameInDir == << "d", "/", "m", ".", "p", "y" >>

\* An ordinary, commented source text, and variations of it.
PlainContent ==
    [ head |-> << "i", "m" >>, size |-> 2048, feats |-> {}, reps |-> 1,
      line_count |-> 40, non_empty_lines |-> 30,
      docstring_count |-> 1, comment_count |-> 4 ]

LongBareContent ==
    [ PlainContent EXCEPT !.size = 20000, !.line_count = 501,
                          !.non_empty_lines = 450,
                          !.docstring_count = 0, !.comment_count = 0 ]

TinyContent ==
    [ PlainContent EXCEPT !.head = << "x" >>, !.size = 1, !.line_count = 1,
                          !.non_empty_lines = 1,
                          !.docstring_count = 0, !.comment_count = 0 ]

ExeContent ==
    [ PlainContent EXCEPT !.head = << "M", "Z" >>, !.size = 100 * 1024 * 1024 + 1 ]

AvClean == [ kind |-> "status", found |-> FALSE, sig |-> "" ]
AvFound == [ kind |-> "status", found |-> TRUE, sig |-> "Eicar-Test-Signature" ]
AvAnswers ==
    { AvClean, AvFound,
      [ kind |-> "none", found |-> FALSE, sig |-> "" ],
      [ kind |-> "unavailable", found |-> FALSE, sig |-> "" ],
      [ kind |-> "raises", found |-> FALSE, sig |-> "" ] }

\* A daemon that accepts the scan and never answers.  clamd_socket.scan is
\* called without a timeout, so _scan_with_clamav does not return for it.
AvSilent == [ kind |-> "silent", found |-> FALSE, sig |-> "" ]

\* The antivirus call of scan_file returns.
Responds(av) == av.kind # "silent"

SyntaxValid == [ kind |-> "valid", line |-> 0 ]
NoFindings == [ kind |-> "findings", items |-> << >> ]

\* k copies of x.
Repeat(x, k) == [ i \in 1..k |-> x ]

Flake8Error == [ code |-> << "F", "4", "0", "1" >>, severity |-> 0, ruleId |-> "", line |-> 3 ]
Flake8Style == [ code |-> << "W", "2", "9", "1" >>, severity |-> 0, ruleId |-> "", line |-> 7 ]
EslintError == [ code |-> << >>, severity |-> 2, ruleId |-> "no-undef", line |-> 3 ]
EslintWarning == [ code |-> << >>, severity |-> 1, ruleId |-> "no-unused-vars", line |-> 7 ]
EslintOther == [ code |-> << >>, severity |-> 0, ruleId |-> "unknown", line |-> 0 ]
BanditFinding(sev) == [ issue_severity |-> sev, test_id |-> "B301", line_number |-> 5 ]

CleanPy ==
    [ name |-> NamePy, content |-> PlainContent, av |-> AvClean,
      syntax |-> SyntaxValid, lint |-> NoFindings, seclint |-> NoFindings,
      faults |-> {} ]

CleanJs == [ CleanPy EXCEPT !.name = NameJs ]

\* The files of the submissions of the model: a clean file of each kind and
\* files on which the stages find, or fail at, as much as they can.
SubmittedFiles ==
    { CleanPy,
      [ CleanPy EXCEPT !.av = AvFound ],
      [ CleanPy EXCEPT !.content = [ PlainContent EXCEPT !.docstring_count = 0,
                                                         !.comment_count = 0 ] ],
      [ CleanJs EXCEPT !.content = [ PlainContent EXCEPT !.feats = { "eval" }, !.reps = MaxOccur ] ],
      [ CleanPy EXCEPT !.name = NameJava, !.content = LongBareContent,
                       !.syntax = [ kind |-> "syntax_error", line |-> 2 ],
                       !.lint = [ kind |-> "findings", items |-> << Flake8Error >> ],
                       !.seclint = [ kind |-> "findings",
                                     items |-> << BanditFinding("HIGH") >> ] ],
      [ CleanPy EXCEPT !.av = AvSilent ],
      [ CleanPy EXCEPT !.name = NameExe, !.content = ExeContent, !.av = AvFound ],
      [ CleanPy EXCEPT !.name = NameInDir ],
      [ CleanPy EXCEPT !.name = NameMd, !.content = TinyContent,
                       !.av = [ kind |-> "unavailable", found |-> FALSE, sig |-> "" ] ],
      [ CleanPy EXCEPT !.faults = { "file_type", "content", "structure", "complexity" },
                       !.lint = [ kind |-> "timeout", items |-> << >> ],
                       !.seclint = [ kind |-> "raises", items |-> << >> ] ],
      [ CleanPy EXCEPT !.content = [ LongBareContent EXCEPT !.feats = { "deserialization", "eval" } ],
                       !.syntax = [ kind |-> "syntax_error", line |-> 2 ],
                       !.lint = [ kind |-> "findings",
                                  items |-> Repeat(Flake8Error, MaxFindings) ],
                       !.seclint = [ kind |-> "findings",
                                     items |-> Repeat(BanditFinding("HIGH"), MaxBandit) ] ],
      [ CleanPy EXCEPT !.content = [ TinyContent EXCEPT !.size = 9 ],
                       !.lint = [ kind |-> "findings", items |-> << Flake8Style >> ] ] }

RECURSIVE SeqsUpTo(_, _)
SeqsUpTo(S, n) ==
    IF n = 0 THEN { << >> }
    ELSE LET shorter == SeqsUpTo(S, n - 1)
         IN  shorter \cup { Append(q, x) : q \in { t \in shorter : Len(t) = n - 1 }, x \in S }

ResearcherTypes == RecognizedTypes \cup { "student" }


(***************************************************************************)
(* The service after construction: no request is being served.             *)
(***************************************************************************)
Quiet ==
    /\ handler = "none"
    /\ request = None
    /\ file_idx = 0
    /\ processed_files = << >>
    /\ overall_scores = ZeroScores
    /\ all_issues = << >>
    /\ security_result = None
    /\ validation_result = None
    /\ pending_exc = FALSE
    /\ temp_files = {}
    /\ calls = NoCalls
    /\ response = None

Idle == pc = "idle" /\ Quiet

NoFunction == fn_in = None /\ fn_out = None

\* A function of the service called directly, outside any request.
Direct == pc = "call" /\ Quiet /\ fn_out = None

Init == Idle /\ NoFunction

\* The handler leaves with an exception: nothing of the request survives it.
Fail(detail) ==
    /\ pc' = "done"
    /\ response' = Failure(detail)

(***************************************************************************)
(* validate_submission, lines 81-92: the input checks and the accumulators.*)
(***************************************************************************)
ValidateSubmission ==
    /\ pc = "idle"
    /\ \E researcher_type \in ResearcherTypes, files \in SeqsUpTo(SubmittedFiles, MaxFiles) :
          /\ request' = [ researcher_type |-> researcher_type, files |-> files ]
          /\ IF InputError(researcher_type, files) # ""
             THEN /\ Fail(InputError(researcher_type, files))
                  /\ file_idx' = file_idx
             ELSE /\ pc' = "create_temp"
                  /\ file_idx' = 1
                  /\ response' = response
    /\ handler' = "validate"
    /\ processed_files' = << >>
    /\ overall_scores' = ZeroScores
    /\ all_issues' = << >>
    /\ UNCHANGED << security_result, validation_result, pending_exc, temp_files,
                    calls, fn_in, fn_out >>

(***************************************************************************)
(* process_single_file, line 134: the temporary file is created before the *)
(* try block, so a failure here skips the finally clause.                  *)
(***************************************************************************)
CreateTempFile ==
    /\ pc = "create_temp"
    /\ handler = "validate"
    /\ IF TempFileCreatable(CurrentFile.name)
       THEN /\ temp_files' = temp_files \cup { TempFileOf(file_idx) }
            /\ calls' = Called("temp")
            /\ pc' = "save_upload"
            /\ response' = response
       ELSE /\ Fail("FileNotFoundError")
            /\ UNCHANGED << temp_files, calls >>
    /\ UNCHANGED << handler, request, file_idx, processed_files, overall_scores,
                    all_issues, security_result, validation_result, pending_exc,
                    fn_in, fn_out >>

(***************************************************************************)
(* process_single_file, lines 137-146: read the upload, write and flush it.*)
(* Either can fail; the exception then runs the finally clause.            *)
(***************************************************************************)
SaveUpload ==
    /\ pc = "save_upload"
    /\ handler = "validate"
    /\ calls' = Called("read")
    /\ \E saved \in BOOLEAN :
          /\ pending_exc' = ~saved
          /\ pc' = IF saved THEN "security_scan" ELSE "cleanup"
    /\ UNCHANGED << handler, request, file_idx, processed_files, overall_scores,
                    all_issues, security_result, validation_result, temp_files,
                    response, fn_in, fn_out >>

\* process_single_file, line 149
SecurityScan ==
    /\ pc = "security_scan"
    /\ handler = "validate"
    /\ Responds(CurrentFile.av)
    /\ security_result' = ScanFile(CurrentFile)
    /\ calls' = Called("scan")
    /\ pc' = "code_validation"
    /\ UNCHANGED << handler, request, file_idx, processed_files, overall_scores,
                    all_issues, validation_result, pending_exc, temp_files,
                    response, fn_in, fn_out >>

\* process_single_file, lines 152-154
CodeValidation ==
    /\ pc = "code_validation"
    /\ handler = "validate"
    /\ validation_result' = CodeValidationFor(CurrentFile, request.researcher_type)
    /\ calls' = IF request.researcher_type = "coder" THEN Called("validate") ELSE calls
    /\ pc' = "cleanup"
    /\ UNCHANGED << handler, request, file_idx, processed_files, overall_scores,
                    all_issues, security_result, pending_exc, temp_files,
                    response, fn_in, fn_out >>

(***************************************************************************)
(* process_single_file, lines 173-176: the finally clause, then either the *)
(* return of the file's result or the exception on its way out.            *)
(***************************************************************************)
Cleanup ==
    /\ pc = "cleanup"
    /\ handler = "validate"
    /\ temp_files' = temp_files \ { TempFileOf(file_idx) }
    /\ IF pending_exc
       THEN Fail("upload could not be saved")
       ELSE pc' = "aggregate" /\ response' = response
    /\ pending_exc' = FALSE
    /\ UNCHANGED << handler, request, file_idx, processed_files, overall_scores,
                    all_issues, security_result, validation_result, calls,
                    fn_in, fn_out >>

\* validate_submission, lines 95-102: the body of the loop after the call.
AggregateFile ==
    /\ pc = "aggregate"
    /\ LET file_result == FileResult(CurrentFile, security_result, validation_result)
       IN  /\ processed_files' = Append(processed_files, file_result)
           /\ overall_scores' = AddScores(overall_scores, file_result.scores)
           /\ all_issues' = ExtendIssues(all_issues, file_result.issues)
    /\ file_idx' = file_idx + 1
    /\ pc' = IF file_idx < Len(request.files) THEN "create_temp" ELSE "respond"
    /\ security_result' = None
    /\ validation_result' = None
    /\ UNCHANGED << handler, request, pending_exc, temp_files, calls, response,
                    fn_in, fn_out >>

\* validate_submission, lines 104-126: averages, confidence, recommendation.
Respond ==
    /\ pc = "respond"
    /\ LET num_files == Len(processed_files)
       IN  \E detailed_scores \in AverageScores(overall_scores, num_files) :
           \E overall_confidence \in CalculateOverallConfidence(detailed_scores) :
              /\ overall_scores' = detailed_scores
              /\ response' = ValidationResponse(detailed_scores, overall_confidence,
                                                all_issues, num_files)
    /\ pc' = "done"
    /\ UNCHANGED << handler, request, file_idx, processed_files, all_issues,
                    security_result, validation_result, pending_exc, temp_files,
                    calls, fn_in, fn_out >>

(***************************************************************************)
(* main.py: POST /validate/code.  The code arrives as text; the file case  *)
(* describes that text and what the tools answer for it.                   *)
(***************************************************************************)
CodeLanguages == { "python", "javascript", "ruby" }

CodeSubmissions ==
    { CleanPy,
      [ CleanPy EXCEPT !.av = AvFound ],
      [ CleanPy EXCEPT !.av = AvSilent ],
      [ CleanPy EXCEPT !.name = NameJava ],
      [ CleanJs EXCEPT !.content = [ PlainContent EXCEPT !.feats = { "eval" }, !.reps = MaxOccur ] ] }

\* validate_code_only, lines 200-202: the language check.
ValidateCodeOnly ==
    /\ pc = "idle"
    /\ \E language \in CodeLanguages, fc \in CodeSubmissions :
          /\ request' = [ language |-> language, files |-> << fc >> ]
          /\ IF language \notin { "python", "javascript" }
             THEN Fail("Unsupported language")
             ELSE pc' = "code_create_temp" /\ response' = response
    /\ handler' = "validate_code"
    /\ file_idx' = 1
    /\ UNCHANGED << processed_files, overall_scores, all_issues, security_result,
                    validation_result, pending_exc, temp_files, calls, fn_in, fn_out >>

\* validate_code_only, line 205: the suffix is "." and get_extension(language).
CodeCreateTemp ==
    /\ pc = "code_create_temp"
    /\ temp_files' = temp_files \cup { TempFileOf(file_idx) }
    /\ calls' = Called("temp")
    /\ pc' = "code_write"
    /\ UNCHANGED << handler, request, file_idx, processed_files, overall_scores,
                    all_issues, security_result, validation_result, pending_exc,
                    response, fn_in, fn_out >>

\* validate_code_only, lines 206-207: write and flush, outside the inner try:
\* an exception here reaches the outer except without passing the finally.
CodeWrite ==
    /\ pc = "code_write"
    /\ \E written \in BOOLEAN :
          IF written
          THEN pc' = "code_scan" /\ response' = response
          ELSE Fail("code could not be written")
    /\ UNCHANGED << handler, request, file_idx, processed_files, overall_scores,
                    all_issues, security_result, validation_result, pending_exc,
                    temp_files, calls, fn_in, fn_out >>

\* validate_code_only, line 217
CodeScan ==
    /\ pc = "code_scan"
    /\ Responds(CurrentFile.av)
    /\ security_result' = ScanFile(CurrentFile)
    /\ calls' = Called("scan")
    /\ pc' = "code_validate"
    /\ UNCHANGED << handler, request, file_idx, processed_files, overall_scores,
                    all_issues, validation_result, pending_exc, temp_files,
                    response, fn_in, fn_out >>

\* validate_code_only, line 220
CodeValidate ==
    /\ pc = "code_validate"
    /\ validation_result' = ValidateCodeFile(CurrentFile)
    /\ calls' = Called("validate")
    /\ pc' = "code_return"
    /\ UNCHANGED << handler, request, file_idx, processed_files, overall_scores,
                    all_issues, security_result, pending_exc, temp_files,
                    response, fn_in, fn_out >>

\* What validate_code_only returns for the two results and a confidence.
CodeResponse(security, validation, confidence) ==
    [ kind |-> "code_response",
      confidence |-> confidence,
      scores |-> FileScores(security, validation),
      issues |-> CombineIssues(security, validation),
      recommendation |-> GetRecommendation(confidence, CombineIssues(security, validation)) ]

\* validate_code_only, lines 222-241: the returned dict, then the finally
\* clause.  The scorer is given the scores of the file as they are.
CodeReturn ==
    /\ pc = "code_return"
    /\ LET scores == FileScores(security_result, validation_result)
       IN  \E confidence \in CalculateOverallConfidence([ c \in Categories |-> 100 * scores[c] ]) :
              response' = CodeResponse(security_result, validation_result, confidence)
    /\ temp_files' = temp_files \ { TempFileOf(file_idx) }
    /\ pc' = "done"
    /\ UNCHANGED << handler, request, file_idx, processed_files, overall_scores,
                    all_issues, security_result, validation_result, pending_exc,
                    calls, fn_in, fn_out >>

Next ==
    \/ ValidateSubmission
    \/ CreateTempFile
    \/ SaveUpload
    \/ SecurityScan
    \/ CodeValidation
    \/ Cleanup
    \/ AggregateFile
    \/ Respond
    \/ ValidateCodeOnly
    \/ CodeCreateTemp
    \/ CodeWrite
    \/ CodeScan
    \/ CodeValidate
    \/ CodeReturn

Spec == Init /\ [][Next]_vars

\* The event loop runs the handler whenever it can take a step.
FairSpec == Spec /\ WF_vars(Next)


(***************************************************************************)
(* The functions of the service on their own: an input is drawn, the       *)
(* function is applied to it.                                              *)
(***************************************************************************)
Applied(kind) == fn_in # None /\ fn_in.kind = kind /\ fn_out # None

Apply(kind, results) ==
    /\ fn_in # None
    /\ fn_in.kind = kind
    /\ fn_out = None
    /\ \E r \in results : fn_out' = [ kind |-> kind, value |-> r ]
    /\ UNCHANGED << pc, handler, request, file_idx, processed_files, overall_scores,
                    all_issues, security_result, validation_result, pending_exc,
                    temp_files, calls, response, fn_in >>

\* Files for scan_file: every combination of name, first bytes, size, risk
\* patterns, antivirus answer and failing stage; a text of fewer than ten
\* bytes holds no risk pattern.
ScanPatterns == { suspicious_patterns[k].pattern : k \in 1..Len(suspicious_patterns) }

ScanContents(heads) ==
    { [ PlainContent EXCEPT !.head = h, !.size = 9 ] : h \in heads }
    \cup
    { [ PlainContent EXCEPT !.head = h, !.size = z, !.feats = f,
                            !.reps = IF f = {} THEN 1 ELSE n ] :
        h \in heads,
        z \in { 2048, 100 * 1024 * 1024 + 1 },
        f \in SUBSET ScanPatterns,
        n \in 1..MaxOccur }

ScanFaults == { {}, { "file_type" }, { "content" }, { "structure" } }

ScanCases(names) ==
    { [ CleanPy EXCEPT !.name = nm, !.content = c, !.av = a, !.faults = ft ] :
        nm \in names,
        c \in ScanContents({ << "M", "Z" >>, << "i", "m" >> }),
        a \in AvAnswers,
        ft \in ScanFaults }

InitScan ==
    Direct
    /\ fn_in \in { [ kind |-> "scan_file", arg |-> fc ] : fc \in ScanCases({ NamePy, NameJs, NameExe, NameMd }) }

ApplyScanFile == Apply("scan_file", { ScanFile(fn_in.arg) })

SpecScan == InitScan /\ [][ApplyScanFile]_vars

\* Score maps for calculate_overall_confidence: any set of the four
\* categories, with or without a category the scorer does not know, and
\* scores on both sides of every threshold.
ScoreValues == { 0, 2999, 3000, 4999, 5000, 6999, 7000, 8499, 8500, 9000, 10000 }

ScoreMaps(values) ==
    UNION { [ D -> values ] : D \in SUBSET Categories }
    \cup
    UNION { [ D \cup { "novelty" } -> { 1000, 9000 } ] : D \in SUBSET Categories }

InitConf ==
    Direct
    /\ fn_in \in { [ kind |-> "confidence", arg |-> m ] : m \in ScoreMaps(ScoreValues) }

ApplyConfidence == Apply("confidence", CalculateOverallConfidence(fn_in.arg))

SpecConf == InitConf /\ [][ApplyConfidence]_vars

\* Inputs of get_recommendation: every confidence and every list of up to
\* two issues of any severities.
Severities == { "error", "warning", "info" }

IssueLists(n) ==
    SeqsUpTo({ Issue(sv, "finding", NamePy, "rule") : sv \in Severities }, n)

InitRec ==
    Direct
    /\ fn_in \in { [ kind |-> "recommendation", arg |-> [ confidence |-> c, issues |-> l ] ] :
                   c \in 0..100, l \in IssueLists(MaxIssues) }

ApplyRecommendation ==
    Apply("recommendation", { GetRecommendation(fn_in.arg.confidence, fn_in.arg.issues) })

SpecRec == InitRec /\ [][ApplyRecommendation]_vars


\* Files and tool answers for validate_code_file: for each language every
\* answer of its syntax checker, lint findings up to and beyond the cap, and
\* either bandit findings or the built-in patterns.
LintAnswers(serious, minor) ==
    { [ kind |-> "findings", items |-> Repeat(serious, k) \o Repeat(minor, m) ] :
        k \in 0..MaxFindings, m \in 0..1 }
    \cup { [ kind |-> "timeout", items |-> << >> ], [ kind |-> "raises", items |-> << >> ] }

BanditAnswers ==
    { [ kind |-> "findings",
        items |-> Repeat(BanditFinding("HIGH"), h) \o Repeat(BanditFinding("MEDIUM"), m)
                  \o Repeat(BanditFinding("LOW"), l) \o Repeat(BanditFinding("UNDEFINED"), u) ] :
        h \in 0..MaxBandit, m \in 0..1, l \in 0..1, u \in 0..1 }
    \cup { [ kind |-> "timeout", items |-> << >> ], [ kind |-> "raises", items |-> << >> ] }

JsPatterns == { security_patterns[k].pattern : k \in 1..Len(security_patterns) }

SyntaxAnswers(language) ==
    IF language = "python"
    THEN { SyntaxValid, [ kind |-> "syntax_error", line |-> 2 ],
           [ kind |-> "parse_error", line |-> 0 ] }
    ELSE { SyntaxValid } \cup
         { [ kind |-> k, line |-> 0 ] : k \in { "invalid", "timeout", "unavailable", "error" } }

CodeCases(shapes) ==
    { [ CleanPy EXCEPT !.content = c, !.syntax = sx, !.lint = l, !.seclint = b, !.faults = ft ] :
        c \in shapes, sx \in SyntaxAnswers("python"),
        l \in LintAnswers(Flake8Error, Flake8Style), b \in BanditAnswers,
        ft \in { {}, { "complexity" } } }
    \cup
    { [ CleanJs EXCEPT !.content = [ c EXCEPT !.feats = f, !.reps = IF f = {} THEN 1 ELSE n ],
                       !.syntax = sx, !.lint = l, !.faults = ft ] :
        c \in shapes, f \in SUBSET JsPatterns, n \in 1..MaxOccur,
        sx \in SyntaxAnswers("javascript"),
        l \in LintAnswers(EslintError, EslintWarning) \cup LintAnswers(EslintError, EslintOther),
        ft \in { {}, { "complexity" }, { "code_security" } } }
    \cup
    { [ CleanPy EXCEPT !.name = NameJava, !.content = c ] : c \in shapes }

InitCode ==
    Direct
    /\ fn_in \in { [ kind |-> "validate_code_file", arg |-> fc ] :
                   fc \in CodeCases({ PlainContent, LongBareContent }) }

ApplyValidateCodeFile == Apply("validate_code_file", { ValidateCodeFile(fn_in.arg) })

SpecCode == InitCode /\ [][ApplyValidateCodeFile]_vars

\* Every handler and every function together.
InitAll == Init \/ InitScan \/ InitCode \/ InitConf \/ InitRec

NextAll == Next \/ ApplyScanFile \/ ApplyValidateCodeFile \/ ApplyConfidence \/ ApplyRecommendation

SpecAll == InitAll /\ [][NextAll]_vars

(***************************************************************************)
(* Properties of the scores, the recommendation and the scanner.           *)
(***************************************************************************)
HasError(issues) == \E k \in 1..Len(issues) : issues[k].severity = "error"

\* The sum of the deductions validate_code_file subtracts for a file.
TechnicalDeductions(fc) ==
    LET language == DetectLanguage(FileExtension(fc.name))
    IN  ValidateSyntax(fc, language).score_deduction
        + AnalyzeCodeQuality(fc, language).score_deduction
        + AnalyzeCodeSecurity(fc, language).score_deduction
        + AnalyzeComplexity(fc, language).score_deduction

\* C1: every score that is produced lies in [0, 100]: the security score of
\* scan_file and the technical score of validate_code_file, called directly
\* or for a file of a request, the four scores of each processed file, the
\* four averages of a response (kept in hundredths) and every confidence,
\* whatever the file holds and whatever the tools answer.
C1_ScoresInRange ==
    /\ security_result # None => security_result.score \in 0..100
    /\ validation_result # None => validation_result.score \in 0..100
    /\ \A k \in 1..Len(processed_files) :
          \A c \in Categories : processed_files[k].scores[c] \in 0..100
    /\ response.kind = "response" =>
          /\ \A c \in Categories : response.detailed_scores[c] \in 0..(100 * 100)
          /\ response.overall_confidence \in 0..100
    /\ Applied("scan_file") => fn_out.value.score \in 0..100
    /\ Applied("validate_code_file") => fn_out.value.score \in 0..100
    /\ Applied("confidence") => fn_out.value \in 0..100

\* A file whose deductions exceed 100 and whose technical score is 0.
C1_Witness ==
    /\ Applied("validate_code_file")
    /\ TechnicalDeductions(fn_in.arg) > 100
    /\ fn_out.value.score = 0

\* C2: get_recommendation given a list with at least one error issue returns
\* reject, for every confidence in 0..100.
C2_ErrorRejects ==
    Applied("recommendation") /\ HasError(fn_in.arg.issues) => fn_out.value = "reject"

\* Confidence 100 and an error issue: reject.
C2_Witness ==
    /\ Applied("recommendation")
    /\ fn_in.arg.confidence = 100
    /\ HasError(fn_in.arg.issues)
    /\ fn_out.value = "reject"

\* C3: when the antivirus reports the file infected, scan_file returns score
\* 0 and, first in its list, an error issue of the malware stage carrying the
\* signature; the issues after it are those the file-type, content and
\* structure stages report for the same file when the antivirus finds
\* nothing.
C3_InfectedScoresZero ==
    Applied("scan_file") /\ fn_in.arg.av.kind = "status" /\ fn_in.arg.av.found =>
        LET r == fn_out.value
            uninfected == ScanFile([ fn_in.arg EXCEPT !.av = AvClean ])
        IN  /\ r.score = 0
            /\ r.issues # << >>
            /\ Head(r.issues).severity = "error"
            /\ Head(r.issues).rule = "clamav_scan"
            /\ Head(r.issues).info = << fn_in.arg.av.sig >>
            /\ Tail(r.issues) = uninfected.issues

\* An infected file on which later stages deduct and report, and its score 0.
C3_Witness ==
    /\ Applied("scan_file")
    /\ fn_in.arg.av.kind = "status" /\ fn_in.arg.av.found
    /\ ScanFile([ fn_in.arg EXCEPT !.av = AvClean ]).score < 100
    /\ Len(fn_out.value.issues) > 1
    /\ fn_out.value.score = 0

\* The issues with everything but their severities blanked.
SeveritiesOnly(issues) ==
    [ k \in 1..Len(issues) |-> Issue(issues[k].severity, "", << >>, "") ]

\* C4: without an error issue get_recommendation returns approve from 85,
\* human_review from 70 to 84 and reject below 70; and its result is the one
\* for the same confidence and the same severities, whatever else the issues
\* hold.
C4_Thresholds ==
    Applied("recommendation") =>
        LET confidence == fn_in.arg.confidence
            issues == fn_in.arg.issues
        IN  /\ ~HasError(issues) =>
                  /\ confidence >= 85 => fn_out.value = "approve"
                  /\ confidence \in 70..84 => fn_out.value = "human_review"
                  /\ confidence < 70 => fn_out.value = "reject"
            /\ fn_out.value = GetRecommendation(confidence, SeveritiesOnly(issues))

\* Confidence exactly 85 and warnings only: approve.
C4_Witness ==
    /\ Applied("recommendation")
    /\ fn_in.arg.confidence = 85
    /\ fn_in.arg.issues # << >>
    /\ ~HasError(fn_in.arg.issues)
    /\ fn_out.value = "approve"

\* The weighted mean of the categories a map holds, over the weights of
\* those categories only, as a fraction of hundredths.
PresentMean(scores) ==
    LET weight == [ security |-> 35, technical_quality |-> 30,
                    originality |-> 20, completeness |-> 15 ]
        present == DOMAIN scores \cap Categories
        term(c) == IF c \in present THEN scores[c] * weight[c] ELSE 0
        share(c) == IF c \in present THEN weight[c] ELSE 0
    IN  [ n |-> term("security") + term("technical_quality")
                + term("originality") + term("completeness"),
          d |-> 100 * (share("security") + share("technical_quality")
                       + share("originality") + share("completeness")) ]

\* No penalty and no bonus applies to the map.
Unadjusted(scores) ==
    /\ "security" \in DOMAIN scores => scores["security"] >= 70 * 100
    /\ "technical_quality" \in DOMAIN scores => scores["technical_quality"] >= 30 * 100
    /\ \E c \in DOMAIN scores : scores[c] < 85 * 100

\* C6 as the specification states it: a map holding only security=90 yields
\* confidence 90.
C6_SecurityOnlyYields90 ==
    Applied("confidence") /\ fn_in.arg = [ c \in { "security" } |-> 90 * 100 ]
        => fn_out.value = 90

\* C6, amended: on a map of some of the four categories the mean is taken
\* over the weights present, and a map no penalty or bonus applies to yields
\* that mean, rounded; the map holding only security=90 has mean 90, gets the
\* bonus of its all-high scores (94.5) and yields 94 or 95.
C6_Renormalised ==
    Applied("confidence") /\ DOMAIN fn_in.arg # {} /\ DOMAIN fn_in.arg \subseteq Categories =>
        LET scores == fn_in.arg
            mean == PresentMean(scores)
        IN  /\ Unadjusted(scores) => fn_out.value \in RoundOutcomes(mean.n, mean.d)
            /\ scores = [ c \in { "security" } |-> 90 * 100 ] =>
                  /\ mean.n = 90 * mean.d
                  /\ fn_out.value \in { 94, 95 }

\* The map holding only security=90, and confidence 94.
C6_Witness ==
    /\ Applied("confidence")
    /\ fn_in.arg = [ c \in { "security" } |-> 90 * 100 ]
    /\ fn_out.value = 94

(***************************************************************************)
(* Properties of POST /validate.                                           *)
(***************************************************************************)
\* The handler has returned a ValidationResponse.
Answered == pc = "done" /\ handler = "validate" /\ response.kind = "response"

\* The request passes both input checks.
ValidRequest ==
    /\ request.files # << >>
    /\ request.researcher_type \in { "coder", "researcher", "data_scientist" }

\* Scenario A as the specification words it: a Python file with valid
\* syntax, no lint finding, no security-lint finding, no risk pattern in its
\* content and an ordinary size.
ScenarioA(fc) ==
    /\ FileExtension(fc.name) = << ".", "p", "y" >>
    /\ fc.syntax.kind = "valid"
    /\ fc.lint = NoFindings
    /\ fc.seclint = NoFindings
    /\ fc.content.feats = {}
    /\ fc.content.size >= 10
    /\ fc.content.size <= 100 * 1024 * 1024
    /\ fc.content.line_count <= 500

\* What Scenario A leaves open: the antivirus does not report the file, it
\* does not start with an executable signature, it is documented or short,
\* and no stage fails on it.
NothingElseFound(fc) ==
    /\ ~(fc.av.kind = "status" /\ fc.av.found)
    /\ SubSeq(fc.content.head, 1, Min2(2, Len(fc.content.head))) # << "M", "Z" >>
    /\ \/ fc.content.non_empty_lines <= 20
       \/ 10 * (fc.content.docstring_count + fc.content.comment_count)
              >= fc.content.non_empty_lines
    /\ fc.faults = {}

OneCoderFile == request.researcher_type = "coder" /\ Len(request.files) = 1

\* C5 as the specification states it: Scenario A yields security 100,
\* technical quality 100, confidence 100 and approve.
C5_ScenarioAYields100 ==
    Answered /\ OneCoderFile /\ ScenarioA(request.files[1]) =>
        /\ response.detailed_scores["security"] = 100 * 100
        /\ response.detailed_scores["technical_quality"] = 100 * 100
        /\ response.overall_confidence = 100
        /\ response.recommendation = "approve"

\* C5, amended: Scenario A on a file on which no stage finds anything else
\* yields security 100, technical quality 100, confidence 94 (originality 85
\* and completeness 80 are fixed, so no bonus applies) and approve.
C5_ScenarioAYields94 ==
    Answered /\ OneCoderFile /\ ScenarioA(request.files[1])
             /\ NothingElseFound(request.files[1]) =>
        /\ response.detailed_scores["security"] = 100 * 100
        /\ response.detailed_scores["technical_quality"] = 100 * 100
        /\ response.overall_confidence = 94
        /\ response.recommendation = "approve"

\* The response to one clean Python file of a coder.
C5_Witness ==
    /\ Answered /\ OneCoderFile
    /\ ScenarioA(request.files[1]) /\ NothingElseFound(request.files[1])
    /\ response.overall_confidence = 94
    /\ response.issues_found = << >>

\* The loop of validate_submission over the results of the files, as folds.
RECURSIVE AggregateScores(_)
AggregateScores(results) ==
    IF results = << >> THEN ZeroScores
    ELSE AddScores(AggregateScores(SubSeq(results, 1, Len(results) - 1)),
                   results[Len(results)].scores)

RECURSIVE AggregateIssues(_)
AggregateIssues(results) ==
    IF results = << >> THEN << >>
    ELSE ExtendIssues(AggregateIssues(SubSeq(results, 1, Len(results) - 1)),
                      results[Len(results)].issues)

\* The results of the files of the request taken in the order p.
ResultsInOrder(p) ==
    [ i \in 1..Len(request.files) |->
        ProcessSingleFile(request.files[p[i]], request.researcher_type) ]

\* The same elements the same number of times.
SameBag(s, t) ==
    /\ Len(s) = Len(t)
    /\ \A k \in 1..Len(s) :
          Cardinality({ i \in 1..Len(s) : s[i] = s[k] })
              = Cardinality({ i \in 1..Len(t) : t[i] = s[k] })

\* C7: the averaged scores, the confidence and the recommendation of a
\* response are those of the same files submitted in any other order; of the
\* issue list only the order depends on it.
C7_OrderIndependent ==
    Answered =>
        \A p \in Permutations(1..Len(request.files)) :
            LET results == ResultsInOrder(p)
                issues == AggregateIssues(results)
            IN  /\ response.detailed_scores
                       \in AverageScores(AggregateScores(results), Len(results))
                /\ response.overall_confidence
                       \in CalculateOverallConfidence(response.detailed_scores)
                /\ response.recommendation
                       = GetRecommendation(response.overall_confidence, issues)
                /\ SameBag(response.issues_found, issues)

\* Two files with different scores and different issues, answered.
C7_Witness ==
    /\ Answered
    /\ Len(request.files) = 2
    /\ processed_files[1].scores # processed_files[2].scores
    /\ processed_files[1].issues \o processed_files[2].issues
           # processed_files[2].issues \o processed_files[1].issues

\* C8: the issue list of a response is, file after file in the order of the
\* request, the issues of the security scan followed by those of the code
\* validation; nothing is dropped, and files_processed is the number of
\* files of the request.
C8_IssuesConcatenated ==
    Answered =>
        LET n == Len(request.files)
            per_file ==
                [ i \in 1..n |->
                    ScanFile(request.files[i]).issues
                    \o CodeValidationFor(request.files[i], request.researcher_type).issues ]
        IN  /\ response.issues_found = Flatten(per_file)
            /\ Len(response.issues_found) = SumSeq([ i \in 1..n |-> Len(per_file[i]) ])
            /\ response.files_processed = n

\* The same file twice, with issues of both the scan and the validation:
\* every issue is listed twice.
C8_Witness ==
    /\ Answered
    /\ Len(request.files) = 2
    /\ request.files[1] = request.files[2]
    /\ ScanFile(request.files[1]).issues # << >>
    /\ CodeValidationFor(request.files[1], request.researcher_type).issues # << >>
    /\ Len(response.issues_found) = 2 * Len(processed_files[1].issues)

\* C9: a request with no file or with an unrecognized researcher type ends
\* in a failure, and no upload is read, no temporary file is created and
\* neither scan_file nor validate_code_file is called for it.
C9_InvalidRequestFailsFirst ==
    handler = "validate" /\ ~ValidRequest =>
        /\ pc = "done"
        /\ response.kind = "http_error"
        /\ calls = NoCalls
        /\ temp_files = {}
        /\ processed_files = << >>
        /\ security_result = None
        /\ validation_result = None

\* Files submitted by a researcher of an unrecognized type.
C9_Witness ==
    /\ handler = "validate"
    /\ request.files # << >>
    /\ request.researcher_type \notin { "coder", "researcher", "data_scientist" }
    /\ response.kind = "http_error"
    /\ calls = NoCalls

\* C10: a request that passes the input checks is answered with a
\* ValidationResponse, never with a failure.
C10_ValidRequestAnswered ==
    pc = "done" /\ handler = "validate" /\ ValidRequest => response.kind = "response"

(***************************************************************************)
(* Properties of the oracle calls and of the temporary files.              *)
(***************************************************************************)
\* C11: a request to POST /validate eventually produces its result, whatever
\* oracle fails to respond.
C11_EventuallyAnswered == (handler = "validate") ~> (pc = "done")

\* C12: when a handler has returned or failed, no temporary file it created
\* is left.
C12_NoTempFileLeft == pc = "done" => temp_files = {}

\* C13: when the antivirus is not connected or its scan call fails, scan_file
\* reports no malware issue, and its issues and its score are those of the
\* file-type, content and structure stages alone.
C13_UnavailableSkipped ==
    Applied("scan_file") /\ fn_in.arg.av.kind \in { "unavailable", "raises" } =>
        LET fc == fn_in.arg
            r == fn_out.value
            file_type == ValidateFileType(fc)
            content == ScanFileContent(fc)
            structure == ValidateFileStructure(fc)
            deductions == (IF file_type.suspicious THEN 20 ELSE 0)
                          + content.score_deduction + structure.score_deduction
        IN  /\ \A k \in 1..Len(r.issues) : r.issues[k].rule # "clamav_scan"
            /\ r.issues = (IF file_type.suspicious THEN file_type.issues ELSE << >>)
                          \o content.issues \o structure.issues
            /\ r.score = Max2(0, 100 - deductions)

\* An unreachable daemon, and a score the other stages lowered.
C13_Witness ==
    /\ Applied("scan_file")
    /\ fn_in.arg.av.kind = "unavailable"
    /\ fn_out.value.score \in 1..99
    /\ \A k \in 1..Len(fn_out.value.issues) : fn_out.value.issues[k].severity # "error"

(***************************************************************************)
(* Properties of validate_code_file.                                       *)
(***************************************************************************)
\* The number of issues of a list that carry the rule.
CountRule(issues, rule) == Cardinality({ k \in 1..Len(issues) : issues[k].rule = rule })

\* Scenario C as the specification words it: a JavaScript file with valid
\* syntax and no lint finding whose text holds eval( and no other built-in
\* pattern.
ScenarioC(fc) ==
    /\ FileExtension(fc.name) \in { << ".", "j", "s" >>, << ".", "j", "s", "x" >> }
    /\ fc.syntax.kind = "valid"
    /\ fc.lint = NoFindings
    /\ fc.content.feats = { "eval" }

\* What the complexity stage deducts from a text it can read.
ComplexityDeduction(content) ==
    (IF content.line_count > 500 THEN 3 ELSE 0)
    + (IF content.non_empty_lines > 20
          /\ 10 * (content.docstring_count + content.comment_count) < content.non_empty_lines
       THEN 2 ELSE 0)

\* C14 as the specification states it: Scenario C yields exactly one issue of
\* the pattern scan and technical quality 85.
C14_ScenarioCYields85 ==
    Applied("validate_code_file") /\ ScenarioC(fn_in.arg) =>
        /\ CountRule(fn_out.value.issues, "js_security_pattern") = 1
        /\ fn_out.value.score = 85

\* C14, amended: when no stage fails on the file, Scenario C yields exactly
\* one issue of the pattern scan, of severity error, whatever the number of
\* occurrences, and technical quality 85 less what the complexity stage
\* deducts: 85 for a file of at most 500 lines that is documented or short.
C14_ScenarioCDeducts15 ==
    Applied("validate_code_file") /\ ScenarioC(fn_in.arg) /\ fn_in.arg.faults = {} =>
        LET issues == fn_out.value.issues
        IN  /\ CountRule(issues, "js_security_pattern") = 1
            /\ \A k \in 1..Len(issues) :
                  issues[k].rule = "js_security_pattern" =>
                      /\ issues[k].severity = "error"
                      /\ issues[k].n = fn_in.arg.content.reps
            /\ fn_out.value.score = 85 - ComplexityDeduction(fn_in.arg.content)
            /\ ComplexityDeduction(fn_in.arg.content) = 0 => fn_out.value.score = 85

\* eval( more than once in a documented file: one issue, 85.
C14_Witness ==
    /\ Applied("validate_code_file")
    /\ ScenarioC(fn_in.arg) /\ fn_in.arg.faults = {}
    /\ fn_in.arg.content.reps > 1
    /\ fn_out.value.score = 85

\* The extension of the file is in the language table.
Supported(fc) ==
    FileExtension(fc.name) \in { << ".", "p", "y" >>, << ".", "j", "s" >>,
                                 << ".", "j", "s", "x" >> }

\* The issues of a processed file that follow those of its security scan.
ValidationIssuesOf(k) ==
    SubSeq(processed_files[k].issues,
           Len(ScanFile(request.files[k]).issues) + 1,
           Len(processed_files[k].issues))

\* C15: in a coder submission a file whose extension is in no language table
\* gets technical quality 50 and, from the code validation, one info issue
\* of the language detection and nothing of any later stage, whatever the
\* tools would answer for it; the averaged technical quality is the mean of
\* the scores of the files with that 50 in it.
C15_UnsupportedScores50 ==
    Answered /\ request.researcher_type = "coder" =>
        LET n == Len(request.files)
            unsupported == { k \in 1..n : ~Supported(request.files[k]) }
        IN  /\ \A k \in unsupported :
                  /\ processed_files[k].scores["technical_quality"] = 50
                  /\ Len(ValidationIssuesOf(k)) = 1
                  /\ ValidationIssuesOf(k)[1].severity = "info"
                  /\ ValidationIssuesOf(k)[1].rule = "language_detection"
            /\ response.detailed_scores["technical_quality"]
                   \in RoundOutcomes(
                          100 * SumSeq([ k \in 1..n |->
                                           IF k \in unsupported THEN 50
                                           ELSE ValidateCodeFile(request.files[k]).score ]),
                          n)
            /\ unsupported = 1..n => response.detailed_scores["technical_quality"] = 50 * 100

\* A .java file for which the tools hold findings, next to a clean Python
\* file: technical quality 75.
C15_Witness ==
    /\ Answered
    /\ request.researcher_type = "coder"
    /\ Len(request.files) = 2
    /\ FileExtension(request.files[1].name) = << ".", "j", "a", "v", "a" >>
    /\ request.files[1].syntax.kind = "syntax_error"
    /\ request.files[2] = CleanPy
    /\ response.detailed_scores["technical_quality"] = 75 * 100

\* C16: when the syntax check of a JavaScript file times out or node is not
\* installed, the syntax stage deducts 10 and emits one warning issue, and
\* no error issue of the syntax validation.
C16_SyntaxTimeoutWarns ==
    Applied("validate_code_file")
    /\ DetectLanguage(FileExtension(fn_in.arg.name)) = "javascript"
    /\ fn_in.arg.syntax.kind \in { "timeout", "unavailable" } =>
        LET stage == ValidateSyntax(fn_in.arg, "javascript")
            issues == fn_out.value.issues
        IN  /\ stage.score_deduction = 10
            /\ Len(stage.issues) = 1
            /\ stage.issues[1].severity = "warning"
            /\ \A k \in 1..Len(issues) :
                  issues[k].rule = "syntax_validation" => issues[k].severity # "error"

(***************************************************************************)
(* Properties of the failures inside a stage.                              *)
(***************************************************************************)
\* The list holds exactly one issue of the rule, and it has the severity.
OneIssue(issues, rule, severity) ==
    /\ CountRule(issues, rule) = 1
    /\ \A k \in 1..Len(issues) : issues[k].rule = rule => issues[k].severity = severity

\* The stages of scan_file that fail on the file, with the rule of the issue
\* each failure is reported under and the deduction the stage then returns.
FailedScanStages(fc) ==
    { [ stage |-> "file_type", rule |-> "file_type_error",
        deduction |-> IF ValidateFileType(fc).suspicious THEN 20 ELSE 0 ] :
          x \in { ft \in { "file_type" } : ft \in fc.faults } }
    \cup
    { [ stage |-> "content", rule |-> "content_scan_error",
        deduction |-> ScanFileContent(fc).score_deduction ] :
          x \in { ft \in { "content" } :
                    ft \in fc.faults /\ FileExtension(fc.name) \in text_extensions } }
    \cup
    { [ stage |-> "structure", rule |-> "structure_validation_error",
        deduction |-> ValidateFileStructure(fc).score_deduction ] :
          x \in { ft \in { "structure" } : ft \in fc.faults } }

\* The same for the stages of validate_code_file.  The syntax checkers catch
\* what goes wrong in them and answer "not valid", so that the failure is
\* reported under the rule of a syntax error.
FailedCodeStages(fc) ==
    LET language == DetectLanguage(FileExtension(fc.name))
    IN  { [ stage |-> "syntax", rule |-> "syntax_validation",
            deduction |-> ValidateSyntax(fc, language).score_deduction ] :
              x \in { k \in { "parse_error", "error" } : k = fc.syntax.kind } }
        \cup
        { [ stage |-> "quality", rule |-> "quality_analysis_error",
            deduction |-> AnalyzeCodeQuality(fc, language).score_deduction ] :
              x \in { k \in { "raises" } : k = fc.lint.kind } }
        \cup
        { [ stage |-> "code_security", rule |-> "security_analysis_error",
            deduction |-> AnalyzeCodeSecurity(fc, language).score_deduction ] :
              x \in { k \in { "raises" } :
                        \/ language = "python" /\ fc.seclint.kind = k
                        \/ language = "javascript" /\ "code_security" \in fc.faults } }
        \cup
        { [ stage |-> "complexity", rule |-> "complexity_analysis_error",
            deduction |-> AnalyzeComplexity(fc, language).score_deduction ] :
              x \in { ft \in { "complexity" } : ft \in fc.faults } }

\* The severity and the deduction the code gives the failure of a stage.
FailureSeverity(stage) ==
    CASE stage \in { "file_type", "content" } -> "warning"
      [] stage = "syntax" -> "error"
      [] OTHER -> "info"

FailureDeduction(stage) ==
    CASE stage = "file_type" -> 20
      [] stage = "content" -> 5
      [] stage = "structure" -> 1
      [] stage = "syntax" -> 50
      [] OTHER -> 0

\* C17 as the specification states it: the failure of a stage is reported as
\* one error issue of that stage and deducts nothing.
C17_StageFailureIsError ==
    /\ Applied("scan_file") =>
          \A f \in FailedScanStages(fn_in.arg) :
              /\ OneIssue(fn_out.value.issues, f.rule, "error")
              /\ f.deduction = 0
    /\ Applied("validate_code_file") /\ fn_out.value.language # "" =>
          \A f \in FailedCodeStages(fn_in.arg) :
              /\ OneIssue(fn_out.value.issues, f.rule, "error")
              /\ f.deduction = 0

\* C17, amended: the failure of a stage is caught in the stage and reported
\* as one issue of that stage, with a severity and a deduction fixed per
\* stage: file-type warning and 20, content warning and 5, structure info
\* and 1, syntax error and 50, quality, security-lint and complexity info
\* and 0.
C17_StageFailureTable ==
    /\ Applied("scan_file") =>
          \A f \in FailedScanStages(fn_in.arg) :
              /\ OneIssue(fn_out.value.issues, f.rule, FailureSeverity(f.stage))
              /\ f.deduction = FailureDeduction(f.stage)
    /\ Applied("validate_code_file") /\ fn_out.value.language # "" =>
          \A f \in FailedCodeStages(fn_in.arg) :
              /\ OneIssue(fn_out.value.issues, f.rule, FailureSeverity(f.stage))
              /\ f.deduction = FailureDeduction(f.stage)

\* A clean file on which only the structure stage fails: info issue, 99.
C17_Witness ==
    /\ Applied("scan_file")
    /\ fn_in.arg.faults = { "structure" }
    /\ fn_out.value.score = 99
    /\ Len(fn_out.value.issues) = 1
    /\ fn_out.value.issues[1].severity = "info"

(***************************************************************************)
(* Properties of the confidence adjustments.                               *)
(***************************************************************************)
\* The integers nearest to num/den of the mean of the categories present.
ScaledMean(scores, num, den) ==
    LET mean == PresentMean(scores)
    IN  RoundOutcomes(mean.n * num, mean.d * den)

\* C18: the two penalties compound.  With security below 50 and technical
\* quality below 30 the confidence is the weighted mean times 0.3 times 0.5,
\* with security in [50, 70) the mean times 0.7 times 0.5; with one penalty
\* alone the mean times 0.3, 0.7 or 0.5.  No bonus applies then.
C18_PenaltiesCompound ==
    Applied("confidence")
    /\ { "security", "technical_quality" } \subseteq DOMAIN fn_in.arg =>
        LET scores == fn_in.arg
            security == scores["security"]
            technical == scores["technical_quality"]
        IN  /\ security < 50 * 100 /\ technical < 30 * 100 =>
                  fn_out.value \in ScaledMean(scores, 3 * 1, 10 * 2)
            /\ security >= 50 * 100 /\ security < 70 * 100 /\ technical < 30 * 100 =>
                  fn_out.value \in ScaledMean(scores, 7 * 1, 10 * 2)
            /\ security < 50 * 100 /\ technical >= 30 * 100 =>
                  fn_out.value \in ScaledMean(scores, 3, 10)
            /\ security >= 50 * 100 /\ security < 70 * 100 /\ technical >= 30 * 100 =>
                  fn_out.value \in ScaledMean(scores, 7, 10)
            /\ security >= 70 * 100 /\ technical < 30 * 100 =>
                  fn_out.value \in ScaledMean(scores, 1, 2)

\* Security 69.99, technical quality 29.99 and originality 100: the mean
\* 62.93 times 0.7 times 0.5 is 22.03, where the larger penalty alone gives 44.
C18_Witness ==
    /\ Applied("confidence")
    /\ fn_in.arg = [ security |-> 6999, technical_quality |-> 2999, originality |-> 10000 ]
    /\ fn_out.value = 22

\* C19: a score map without any of the four categories yields confidence 50.
C19_NoCategoryYields50 ==
    Applied("confidence") /\ DOMAIN fn_in.arg \cap Categories = {} => fn_out.value = 50

(***************************************************************************)
(* Properties of the capped stages.                                        *)
(***************************************************************************)
\* The risk patterns of the content stage that occur in a content.
Triggered(content) ==
    { k \in 1..Len(suspicious_patterns) : suspicious_patterns[k].pattern \in content.feats }

\* The sum of the weights of the triggered patterns: error 30, warning 10,
\* info 2.
TriggeredWeight(content) ==
    SumSeq([ k \in 1..Len(suspicious_patterns) |->
               IF k \notin Triggered(content) THEN 0
               ELSE IF suspicious_patterns[k].severity = "error" THEN 30
               ELSE IF suspicious_patterns[k].severity = "warning" THEN 10
               ELSE 2 ])

\* The content stage reads the file and does not fail.
ContentScanned(fc) ==
    FileExtension(fc.name) \in text_extensions /\ "content" \notin fc.faults

\* C20: the content stage emits one issue per triggered pattern and deducts
\* the sum of their weights, at most 50; the quality stage deducts at most
\* 30 and the security stage of validate_code_file at most 40, whatever the
\* number of findings.
C20_StageCaps ==
    /\ Applied("scan_file") /\ ContentScanned(fn_in.arg) =>
          LET fc == fn_in.arg
              weight == TriggeredWeight(fc.content)
              stage == ScanFileContent(fc)
          IN  /\ CountRule(fn_out.value.issues, "content_pattern_scan")
                     = Cardinality(Triggered(fc.content))
              /\ Len(stage.issues) = Cardinality(Triggered(fc.content))
              /\ stage.score_deduction = IF weight > 50 THEN 50 ELSE weight
              /\ stage.score_deduction <= 50
    /\ Applied("validate_code_file") /\ fn_out.value.language # "" =>
          LET fc == fn_in.arg
              language == fn_out.value.language
          IN  /\ AnalyzeCodeQuality(fc, language).score_deduction <= 30
              /\ AnalyzeCodeSecurity(fc, language).score_deduction <= 40
              /\ fn_out.value.score >= 100 - (ValidateSyntax(fc, language).score_deduction
                                              + 30 + 40
                                              + AnalyzeComplexity(fc, language).score_deduction)

\* A clean file whose text triggers patterns worth more than 50: score 50.
C20_Witness ==
    /\ Applied("scan_file")
    /\ ContentScanned(fn_in.arg)
    /\ TriggeredWeight(fn_in.arg.content) > 50
    /\ fn_out.value.score = 50

(***************************************************************************)
(* Properties of the whole pipeline.                                       *)
(***************************************************************************)
\* The submission comes from a researcher type whose files are not code.
NotACoder ==
    handler = "validate" /\ request.researcher_type \in { "researcher", "data_scientist" }

\* C21: for a researcher or a data scientist the code validation is never
\* called, every file gets technical quality 0, and the response has
\* confidence at most 32 and recommends reject.
C21_NonCodersRejected ==
    NotACoder =>
        /\ calls["validate"] = 0
        /\ \A k \in 1..Len(processed_files) :
              processed_files[k].scores["technical_quality"] = 0
        /\ Answered =>
              /\ response.detailed_scores["technical_quality"] = 0
              /\ response.overall_confidence <= 32
              /\ response.recommendation = "reject"

\* A researcher's submission on which nothing is found: confidence 32, reject.
C21_Witness ==
    /\ NotACoder /\ Answered
    /\ response.issues_found = << >>
    /\ response.detailed_scores["security"] = 100 * 100
    /\ response.overall_confidence = 32
    /\ response.recommendation = "reject"

\* validate_code_only has returned its dict.
CodeAnswered == pc = "done" /\ handler = "validate_code" /\ response.kind = "code_response"

\* C22: the confidence of either handler never exceeds 94: completeness is
\* 80 in every response, so that the scores are never all at least 85.
C22_ConfidenceAtMost94 ==
    /\ Answered =>
          /\ response.overall_confidence <= 94
          /\ response.detailed_scores["completeness"] = 80 * 100
          /\ ~AllHigh(response.detailed_scores)
    /\ CodeAnswered =>
          /\ response.confidence <= 94
          /\ response.scores["completeness"] = 80
          /\ ~AllHigh([ c \in Categories |-> 100 * response.scores[c] ])

\* Clean code sent to validate_code_only: security and technical quality
\* 100, confidence 94.
C22_Witness ==
    /\ CodeAnswered
    /\ response.scores["security"] = 100
    /\ response.scores["technical_quality"] = 100
    /\ response.confidence = 94

\* The issues the security scan of the k-th file of the request produced.
ScanIssuesOf(k) == ScanFile(request.files[k]).issues

\* C23: a response with security_passed = true means that the security scan
\* reported no issue of severity error for any file of the submission.
C23_PassedMeansNoScanError ==
    Answered /\ response.security_passed =>
        \A k \in 1..Len(request.files) : ~HasError(ScanIssuesOf(k))

(***************************************************************************)
(* Properties that compare two applications of the scorer.                 *)
(***************************************************************************)
\* The score map with the score of one category replaced.
Raised(scores, category, value) == [ scores EXCEPT ![category] = value ]

\* C24: raising the score of one category of a map never lowers the
\* confidence: every confidence of the raised map is at least the one
\* returned, or the raised map has the value of the map itself (the two
\* integers next to the same exact tie).
C24_Monotone ==
    Applied("confidence") =>
        \A c \in DOMAIN fn_in.arg :
            \A v \in ScoreValues :
                v >= fn_in.arg[c] =>
                    LET raised == CalculateOverallConfidence(Raised(fn_in.arg, c, v))
                    IN  \/ \A r \in raised : fn_out.value <= r
                        \/ /\ raised = CalculateOverallConfidence(fn_in.arg)
                           /\ Cardinality(raised) = 2

\* Security 49.99 with the other scores 100 yields 25; security 50 yields 58.
C24_Witness ==
    /\ Applied("confidence")
    /\ fn_in.arg = [ security |-> 4999, technical_quality |-> 10000,
                     originality |-> 10000, completeness |-> 10000 ]
    /\ fn_out.value = 25
    /\ CalculateOverallConfidence(Raised(fn_in.arg, "security", 5000)) = { 58 }

\* C25: validate_code_only analyses the code in the declared language,
\* whatever the filename: the validation is never the result for an
\* unsupported extension, and its language is the declared one.
C25_DeclaredLanguageAnalysed ==
    CodeAnswered =>
        /\ CountRule(response.issues, "language_detection") = 0
        /\ validation_result.language = request.language


=============================================================================
